---- MODULE Spec2Model ----
(***************************************************************************)
(* Model of the ingestion pipeline of aviation-grievances-india:           *)
(*   - to_snake_case / standardize_column_names (key renaming),            *)
(*   - aviation_grievances_custom (offset walk, stamping, yield).          *)
(* Strings that the code inspects character by character (mapping keys)    *)
(* are sequences of one-character strings.  A mapping (Python dict) is a   *)
(* sequence of <<key, value>> pairs in insertion order with unique keys.   *)
(* A value is a pair <<tag, n>>.                                           *)
(***************************************************************************)
EXTENDS Integers, Sequences, FiniteSets, TLC

\* ------------------------------------------------------------------------
\* Characters
\* ------------------------------------------------------------------------
UpperChars == <<"A","B","C","D","E","F","G","H","I","J","K","L","M",
                "N","O","P","Q","R","S","T","U","V","W","X","Y","Z">>

LowerChars == <<"a","b","c","d","e","f","g","h","i","j","k","l","m",
                "n","o","p","q","r","s","t","u","v","w","x","y","z">>

DigitChars == <<"0","1","2","3","4","5","6","7","8","9">>

Range(s) == {s[i] : i \in DOMAIN s}

UpperSet == Range(UpperChars)

LowerSet == Range(LowerChars)

DigitSet == Range(DigitChars)

\* [A-Z]
IsUpper(c) == c \in UpperSet

\* [a-z]
IsLower(c) == c \in LowerSet

\* [a-z0-9]
IsLowerOrDigit(c) == IsLower(c) \/ c \in DigitSet

\* str.lower() on one character
LowerChar(c) ==
    IF IsUpper(c)
    THEN LowerChars[CHOOSE i \in DOMAIN UpperChars : UpperChars[i] = c]
    ELSE c

\* A to_snake_case that forgets to lowercase.
lower_forgotten(s) == s

\* str.lower()
lower(s) == [i \in DOMAIN s |-> LowerChar(s[i])]

\* ------------------------------------------------------------------------
\* to_snake_case
\* ------------------------------------------------------------------------
\* Length of the maximal run of [A-Z] starting at position i of s.
RECURSIVE UpperRun(_, _)
UpperRun(s, i) ==
    IF i <= Len(s) /\ IsUpper(s[i]) THEN 1 + UpperRun(s, i + 1) ELSE 0

\* The greedy match of ([A-Z]+)([A-Z][a-z]) anchored at i: the largest k >= 1
\* such that s[i..i+k-1] is group 1, s[i+k] is a capital and s[i+k+1] is a
\* lowercase letter; 0 when the pattern does not match at i.
AcronymMatch(s, i) ==
    LET ks == {k \in 1..UpperRun(s, i) :
                  /\ i + k + 1 <= Len(s)
                  /\ IsUpper(s[i + k])
                  /\ IsLower(s[i + k + 1])}
    IN  IF ks = {} THEN 0 ELSE CHOOSE k \in ks : \A j \in ks : j <= k

\* A to_snake_case without its first stage.
SubAcronym_skipped(s, i) == SubSeq(s, i, Len(s))

\* re.sub('([A-Z]+)([A-Z][a-z])', r'\1_\2', s) scanning from position i:
\* leftmost, non-overlapping matches.
RECURSIVE SubAcronym(_, _)
SubAcronym(s, i) ==
    IF i > Len(s) THEN <<>>
    ELSE LET k == AcronymMatch(s, i)
         IN  IF k > 0
             THEN SubSeq(s, i, i + k - 1) \o <<"_">> \o SubSeq(s, i + k, i + k + 1)
                     \o SubAcronym(s, i + k + 2)
             ELSE <<s[i]>> \o SubAcronym(s, i + 1)

\* The second stage with the character class [A-Za-z] for its second group.
RECURSIVE SubCamel_anyletter(_, _)
SubCamel_anyletter(s, i) ==
    IF i > Len(s) THEN <<>>
    ELSE IF i + 1 <= Len(s) /\ IsLowerOrDigit(s[i])
               /\ (IsUpper(s[i + 1]) \/ IsLower(s[i + 1]))
         THEN <<s[i], "_", s[i + 1]>> \o SubCamel_anyletter(s, i + 2)
         ELSE <<s[i]>> \o SubCamel_anyletter(s, i + 1)

\* re.sub('([a-z0-9])([A-Z])', r'\1_\2', s) scanning from position i.
RECURSIVE SubCamel(_, _)
SubCamel(s, i) ==
    IF i > Len(s) THEN <<>>
    ELSE IF i + 1 <= Len(s) /\ IsLowerOrDigit(s[i]) /\ IsUpper(s[i + 1])
         THEN <<s[i], "_", s[i + 1]>> \o SubCamel(s, i + 2)
         ELSE <<s[i]>> \o SubCamel(s, i + 1)

\* s1, s2 and the result are bound as values, each computed once:
\*   s1 = re.sub(<first pattern>, name); s2 = re.sub(<second pattern>, s1);
\*   return s2.lower()
to_snake_case(name) ==
    CHOOSE r \in {lower(s2) : s2 \in {SubCamel(s1, 1) :
                                      s1 \in {SubAcronym(n, 1) : n \in {name}}}} :
        TRUE

\* ------------------------------------------------------------------------
\* standardize_column_names
\* ------------------------------------------------------------------------
\* An item is [dict |-> TRUE, body |-> mapping] or, for a value that is not a
\* mapping, [dict |-> FALSE, body |-> <<tag, n>>].  A mapping is a sequence of
\* <<key, value>> pairs in insertion order, keys unique.
Keys(d) == {d[i][1] : i \in DOMAIN d}

HasKey(d, k) == k \in Keys(d)

\* d[k]
Get(d, k) == d[CHOOSE i \in DOMAIN d : d[i][1] = k][2]

\* d[k] = v : an existing key keeps its position, a new key goes last.
SetItem(d, k, v) ==
    IF HasKey(d, k)
    THEN [i \in DOMAIN d |-> IF d[i][1] = k THEN <<k, v>> ELSE d[i]]
    ELSE Append(d, <<k, v>>)

\* The loop of standardize_column_names over item.items() from position i,
\* with standardized_item = acc: k is snake_case_key, next is
\* standardized_item after standardized_item[snake_case_key] = value.
RECURSIVE StandardizeFrom(_, _, _)
StandardizeFrom(item, i, acc) ==
    IF i > Len(item) THEN acc
    ELSE CHOOSE r \in {StandardizeFrom(item, i + 1, next) :
                           next \in {SetItem(a, k, item[i][2]) :
                                        a \in {acc},
                                        k \in {to_snake_case(item[i][1])}}} :
             TRUE

standardize_column_names(item) ==
    IF item.dict
    THEN [dict |-> TRUE, body |-> StandardizeFrom(item.body, 1, <<>>)]
    ELSE item

\* ------------------------------------------------------------------------
\* Values and well-known keys
\* ------------------------------------------------------------------------
None == <<"none", 0>>

K_sNo == <<"s","N","o">>

K_s_no == <<"s","_","n","o">>

K_totalReceived == <<"t","o","t","a","l","R","e","c","e","i","v","e","d">>

K_total_received == <<"t","o","t","a","l","_","r","e","c","e","i","v","e","d">>

K_HTTPStatus == <<"H","T","T","P","S","t","a","t","u","s">>

K_http_status == <<"h","t","t","p","_","s","t","a","t","u","s">>

K_updated_at == <<"u","p","d","a","t","e","d","_","a","t">>

K_updatedAt == <<"u","p","d","a","t","e","d","A","t">>

K_UpdatedAt == <<"U","p","d","a","t","e","d","A","t">>

K_inserted_at == <<"i","n","s","e","r","t","e","d","_","a","t">>

\* ------------------------------------------------------------------------
\* Bounds
\* ------------------------------------------------------------------------
\* Largest number of records a source holds.
MaxN == 61

\* Largest source whose records take every shape and whose responses take
\* every form; larger sources serve the plain shape in the plain form.
MaxVariedN == 12

\* The clock runs in ticks, 0..MaxClock; a second has TicksPerSecond ticks.
MaxClock == 2

TicksPerSecond == 2

\* Renaming check: longest key, and most entries of a mapping.
MaxKeyLen == 4

MaxEntries == 2

\* Runs one after the other: number of runs, and largest source of a run.
MaxRuns == 2

MaxRunN == 21

\* A server that answers as it likes sends up to limit + MaxExtra records.
MaxExtra == 1

\* calculate_metrics: largest count in a column of a row.
MaxCount == 2

\* Dashboard: number of script runs, and of advances of the clock.
MaxReruns == 2

MaxAdvances == 3

\* ------------------------------------------------------------------------
\* aviation_grievances_custom: constants of the walk
\* ------------------------------------------------------------------------
limit == 10

\* @st.cache_data(ttl=600) of run_query
run_query_ttl == 600

\* @st.cache_data(ttl=3600) of get_date_range and get_airline_companies
meta_ttl == 3600

max_offset == 50

\* ------------------------------------------------------------------------
\* The upstream API
\* ------------------------------------------------------------------------
\* The extra fields of a raw record, after its serial number, in JSON order.
PlainShape == <<K_totalReceived>>

Shapes ==
    { PlainShape,
      <<K_UpdatedAt, K_HTTPStatus>>,
      <<K_updated_at, K_updatedAt>> }

\* A source holds n records of one shape.  dated: the response carries
\* updated_date; omit: a response with no record left carries no 'records'
\* field at all instead of an empty list.
Sources ==
    [n : 0..MaxVariedN, shape : Shapes, dated : BOOLEAN, omit : BOOLEAN]
      \cup [n : 0..MaxN, shape : {PlainShape}, dated : {TRUE}, omit : {FALSE}]

\* Record number i (1-based) of the source, as it arrives in the JSON.
RawRecord(src, i) ==
    << <<K_sNo, <<"id", i>> >> >>
       \o [j \in DOMAIN src.shape |-> <<src.shape[j], <<"raw", j>> >>]

\* response.json() of GET ...?offset=off&limit=lim against the source.
Response(src, off, lim) ==
    LET last == IF off + lim < src.n THEN off + lim ELSE src.n
        recs == [i \in 1..(IF last > off THEN last - off ELSE 0)
                    |-> RawRecord(src, off + i)]
    IN  [has_records  |-> ~(recs = <<>> /\ src.omit),
         records      |-> recs,
         has_date     |-> src.dated,
         updated_date |-> <<"date", off \div lim>>]

\* datetime.now(timezone.utc).strftime("%Y-%m-%d %H:%M:%S") at clock tick t:
\* the fraction of the second is dropped.
strftime(t) == <<"time", t \div TicksPerSecond>>

\* ------------------------------------------------------------------------
\* State
\* ------------------------------------------------------------------------
VARIABLES
    source,    \* the upstream data set of this run
    pc,        \* position of the generator: "while", "for", "done", "failed"
    offset,    \* local offset
    data,      \* local data (the decoded response of the current page)
    idx,       \* position of the for loop in records (1-based)
    yielded,   \* the records yielded so far, in order
    origin,    \* per yielded record: offset and updated_date of its page
    fetches,   \* per requests.get: offset requested, record count received
    clock,     \* wall clock, in ticks
    fkind,     \* renaming check: "key" or "item"
    arg,       \* renaming check: the input
    once,      \* renaming check: the function applied once
    twice,     \* renaming check: the function applied twice
    fpc,       \* renaming check: "start", "once", "twice"
    run,       \* number of pipeline runs started so far
    prev_end,  \* how the previous run ended: its pc and its offset
    passed,    \* the max_offset argument given to get_kcc_source
    row,       \* calculate_metrics: one row of the data frame
    metrics,   \* calculate_metrics: the derived columns of the row
    mpc,       \* calculate_metrics: "idle", "start", "done"
    dpc,       \* dashboard script: position of the current script run
    dclock,    \* dashboard: wall clock, in seconds
    advances,  \* dashboard: number of times the clock was advanced
    reruns,    \* dashboard: number of script runs started
    qcache,    \* cache of run_query: query text -> entry
    mcache,    \* caches of get_date_range and get_airline_companies
    shown,     \* elements the current script run has put on the page
    ddata,     \* the script's data (result of get_grievance_data)
    failed_in_run,  \* query texts whose warehouse query raised in this run
    last_failure,   \* query text -> time of its last raising query, or -1
    last_call       \* the most recent call of run_query

walk == <<source, pc, offset, data, idx, yielded, origin, fetches, clock>>

rename == <<fkind, arg, once, twice, fpc>>

runs == <<run, prev_end, passed>>

metr == <<row, metrics, mpc>>

dash == <<dpc, dclock, advances, reruns, qcache, mcache, shown, ddata,
          failed_in_run, last_failure, last_call>>

extra == <<runs, metr, dash>>

vars == <<source, pc, offset, data, idx, yielded, origin, fetches, clock,
          fkind, arg, once, twice, fpc, run, prev_end, passed,
          row, metrics, mpc, dpc, dclock, advances, reruns, qcache, mcache,
          shown, ddata, failed_in_run, last_failure, last_call>>

NoData == [has_records |-> FALSE, records |-> <<>>, has_date |-> FALSE,
           updated_date |-> None]

\* A fetch that raised has no record count.
NoResponse == 0 - 1

\* ------------------------------------------------------------------------
\* aviation_grievances_custom
\* ------------------------------------------------------------------------
\* data.get('records', [])
RecordsOf(d) == IF d.has_records THEN d.records ELSE <<>>

\* data.get('updated_date')
UpdatedDateOf(d) == IF d.has_date THEN d.updated_date ELSE None

\* A walk that goes one page past the ceiling.
WhileCond_late(off) == off <= max_offset + limit

\* A walk that stops one page short of the ceiling.
WhileCond_strict(off) == off < max_offset

\* while offset <= max_offset
WhileCond(off) == off <= max_offset

\* An empty page that restarts the loop instead of leaving it.
EmptyPagePc_continue(records) == IF records = <<>> THEN "while" ELSE "for"

\* if not records: break
EmptyPagePc(records) == IF records = <<>> THEN "done" ELSE "for"

\* A full page taken for the last one.
ShortPage_orfull(records) == Len(records) <= limit

\* if len(records) < limit: break
ShortPage(records) == Len(records) < limit

\* A stride one larger than the page size.
NextOffset_skipping(off) == off + limit + 1

\* offset += limit
NextOffset(off) == off + limit

\* The body of the for loop up to the yield, for one raw record at clock t.
ProcessOne(record, updated_date, t) ==
    LET r1 == SetItem(record, K_updated_at, updated_date)
        r2 == SetItem(r1, K_inserted_at, strftime(t))
    IN  standardize_column_names([dict |-> TRUE, body |-> r2]).body

WalkInit ==
    /\ pc = "while"
    /\ offset = 0
    /\ data = NoData
    /\ idx = 0
    /\ yielded = <<>>
    /\ origin = <<>>
    /\ fetches = <<>>
    /\ clock = 0

WalkIdle ==
    /\ source = [n |-> 0, shape |-> PlainShape, dated |-> TRUE, omit |-> FALSE]
    /\ pc = "idle"
    /\ offset = 0
    /\ data = NoData
    /\ idx = 0
    /\ yielded = <<>>
    /\ origin = <<>>
    /\ fetches = <<>>
    /\ clock = 0

RenameIdle ==
    /\ fkind = "none"
    /\ arg = None
    /\ once = None
    /\ twice = None
    /\ fpc = "idle"

\* No run has ended before; main() calls get_kcc_source() with its default.
FirstRun ==
    /\ run = 1
    /\ prev_end = [pc |-> "none", offset |-> 0]
    /\ passed = max_offset

MetricsIdle ==
    /\ row = None
    /\ metrics = None
    /\ mpc = "idle"

\* Query texts: the date-range query, the airline-list query and the data
\* query of the selected filters.
QueryTexts == {"range", "airlines", "data"}

CachedFunctions == {"get_date_range", "get_airline_companies"}

NoEntry == [present |-> FALSE, value |-> <<>>, at |-> 0]

NoCall == [text |-> "none", at |-> 0, contacted |-> FALSE, value |-> <<>>,
           fail_before |-> 0 - 1]

\* A fresh server process: empty caches, no script run yet.
DashStart ==
    /\ dclock = 0
    /\ advances = 0
    /\ reruns = 0
    /\ qcache = [q \in QueryTexts |-> NoEntry]
    /\ mcache = [f \in CachedFunctions |-> NoEntry]
    /\ shown = {}
    /\ ddata = <<>>
    /\ failed_in_run = {}
    /\ last_failure = [q \in QueryTexts |-> 0 - 1]
    /\ last_call = NoCall

DashIdle ==
    /\ dpc = "off"
    /\ DashStart

ExtraIdle ==
    /\ FirstRun
    /\ MetricsIdle
    /\ DashIdle

Init ==
    /\ source \in Sources
    /\ WalkInit
    /\ RenameIdle
    /\ ExtraIdle

\* requests.get + response.json() succeed; the page is decoded and tested
\* for emptiness.
Fetch ==
    /\ pc = "while"
    /\ WhileCond(offset)
    /\ LET d == Response(source, offset, limit)
       IN  /\ data' = d
           /\ fetches' = Append(fetches, [offset |-> offset,
                                          count  |-> Len(RecordsOf(d))])
           /\ pc' = EmptyPagePc(RecordsOf(d))
    /\ idx' = 1
    /\ UNCHANGED <<source, offset, yielded, origin, clock>>
    /\ UNCHANGED rename
    /\ UNCHANGED extra

\* A failure that is caught and ends the walk like an empty page.
FetchRaises_swallowed ==
    /\ pc = "while"
    /\ WhileCond(offset)
    /\ fetches' = Append(fetches, [offset |-> offset, count |-> NoResponse])
    /\ pc' = "done"
    /\ UNCHANGED <<source, offset, data, idx, yielded, origin, clock>>
    /\ UNCHANGED rename
    /\ UNCHANGED extra

\* requests.get or response.json() raises: nothing catches it.
FetchRaises ==
    /\ pc = "while"
    /\ WhileCond(offset)
    /\ fetches' = Append(fetches, [offset |-> offset, count |-> NoResponse])
    /\ pc' = "failed"
    /\ UNCHANGED <<source, offset, data, idx, yielded, origin, clock>>
    /\ UNCHANGED rename
    /\ UNCHANGED extra

\* The while condition is false: the generator returns.
LoopExit ==
    /\ pc = "while"
    /\ ~WhileCond(offset)
    /\ pc' = "done"
    /\ UNCHANGED <<source, offset, data, idx, yielded, origin, fetches, clock>>
    /\ UNCHANGED rename
    /\ UNCHANGED extra

\* One iteration of the for loop: stamp, rename, yield.
ProcessRecord ==
    /\ pc = "for"
    /\ idx <= Len(RecordsOf(data))
    /\ yielded' = Append(yielded,
                         ProcessOne(RecordsOf(data)[idx], UpdatedDateOf(data), clock))
    /\ origin' = Append(origin, [offset |-> offset,
                                 updated_date |-> UpdatedDateOf(data)])
    /\ idx' = idx + 1
    /\ UNCHANGED <<source, pc, offset, data, fetches, clock>>
    /\ UNCHANGED rename
    /\ UNCHANGED extra

\* The for loop is exhausted: advance the offset, test for the short page.
EndPage ==
    /\ pc = "for"
    /\ idx > Len(RecordsOf(data))
    /\ offset' = NextOffset(offset)
    /\ pc' = IF ShortPage(RecordsOf(data)) THEN "done" ELSE "while"
    /\ UNCHANGED <<source, data, idx, yielded, origin, fetches, clock>>
    /\ UNCHANGED rename
    /\ UNCHANGED extra

\* Time passes while the run is in progress.
Tick ==
    /\ pc \in {"while", "for"}
    /\ clock < MaxClock
    /\ clock' = clock + 1
    /\ UNCHANGED <<source, pc, offset, data, idx, yielded, origin, fetches>>
    /\ UNCHANGED rename
    /\ UNCHANGED extra

Next ==
    \/ Fetch
    \/ FetchRaises
    \/ LoopExit
    \/ ProcessRecord
    \/ EndPage
    \/ Tick

Spec == Init /\ [][Next]_vars

\* ------------------------------------------------------------------------
\* Runs one after the other: main() -> get_kcc_source(max_offset) ->
\* aviation_grievances_custom(), started again after a run has ended.
\* ------------------------------------------------------------------------
\* Sources of the runs: up to MaxRunN records of the plain shape, or MaxN of
\* them (more than the walk reaches).
RunSources ==
    [n : (0..MaxRunN) \cup {MaxN}, shape : {PlainShape}, dated : {TRUE},
     omit : {FALSE}]

\* The max_offset arguments a caller passes.
PassedValues == {0, limit, max_offset}

\* A run that resumes where the previous one stopped.
InitialOffset_resumed(previous) == previous

\* offset = 0 at the start of the generator, whatever the offset of the
\* previous run was.
InitialOffset(previous) == 0

InitRuns ==
    /\ WalkIdle
    /\ RenameIdle
    /\ run = 0
    /\ prev_end = [pc |-> "none", offset |-> 0]
    /\ passed = max_offset
    /\ MetricsIdle
    /\ DashIdle

\* get_kcc_source(m) returns aviation_grievances_custom(): m is not handed
\* on, and the generator starts with its own locals.
StartRun ==
    /\ pc \in {"idle", "done", "failed"}
    /\ run < MaxRuns
    /\ run' = run + 1
    /\ prev_end' = [pc |-> IF pc = "idle" THEN "none" ELSE pc, offset |-> offset]
    /\ \E m \in PassedValues : passed' = m
    /\ \E src \in RunSources : source' = src
    /\ pc' = "while"
    /\ offset' = InitialOffset(offset)
    /\ data' = NoData
    /\ idx' = 0
    /\ yielded' = <<>>
    /\ origin' = <<>>
    /\ fetches' = <<>>
    /\ UNCHANGED clock
    /\ UNCHANGED rename
    /\ UNCHANGED <<metr, dash>>

NextRuns ==
    \/ StartRun
    \/ Fetch
    \/ FetchRaises
    \/ LoopExit
    \/ ProcessRecord
    \/ EndPage

SpecRuns == InitRuns /\ [][NextRuns]_vars

\* ------------------------------------------------------------------------
\* The walk against a server that answers every request, with whatever page
\* it likes: any number of records from 0 to limit + MaxExtra, whatever the
\* offset asked for.
\* ------------------------------------------------------------------------
AnySource == [n |-> 0, shape |-> <<>>, dated |-> TRUE, omit |-> FALSE]

\* A response with c records, answering the request for offset off.
AnyResponse(off, c) ==
    [has_records  |-> TRUE,
     records      |-> [i \in 1..c |-> RawRecord(AnySource, off + i)],
     has_date     |-> TRUE,
     updated_date |-> <<"date", off \div limit>>]

InitAny ==
    /\ source = AnySource
    /\ WalkInit
    /\ RenameIdle
    /\ ExtraIdle

\* requests.get + response.json() succeed with a page of the server's choice.
FetchAny ==
    /\ pc = "while"
    /\ WhileCond(offset)
    /\ \E c \in 0..(limit + MaxExtra) :
          LET d == AnyResponse(offset, c)
          IN  /\ data' = d
              /\ fetches' = Append(fetches, [offset |-> offset,
                                             count  |-> Len(RecordsOf(d))])
              /\ pc' = EmptyPagePc(RecordsOf(d))
    /\ idx' = 1
    /\ UNCHANGED <<source, offset, yielded, origin, clock>>
    /\ UNCHANGED rename
    /\ UNCHANGED extra

NextAny ==
    \/ FetchAny
    \/ LoopExit
    \/ ProcessRecord
    \/ EndPage

\* The run is single-threaded and driven to its end by pipeline.run: a step
\* that can be taken is taken.
SpecAny == InitAny /\ [][NextAny]_vars /\ WF_vars(NextAny)

\* ------------------------------------------------------------------------
\* The renaming functions on their own: to_snake_case on keys and
\* standardize_column_names on items, each applied once and then again.
\* ------------------------------------------------------------------------
KeyAlphabet == {"a", "B", "C", "0", "_"}

CheckedKeys == UNION {[1..m -> KeyAlphabet] : m \in 0..MaxKeyLen}

ItemAlphabet == {"b", "B", "_"}

ItemKeys == UNION {[1..m -> ItemAlphabet] : m \in 0..3}

\* The mapping with the keys ks, in this order; entry i holds the value
\* <<"raw", i>>.
DictOf(ks) == [i \in DOMAIN ks |-> <<ks[i], <<"raw", i>> >>]

\* Keys of a mapping are pairwise different.
Distinct(ks) == \A i, j \in DOMAIN ks : i # j => ks[i] # ks[j]

\* A value that is not a mapping.
NonDict == [dict |-> FALSE, body |-> <<"raw", 0>>]

InitRename ==
    /\ WalkIdle
    /\ \/ fkind = "key" /\ arg \in CheckedKeys
       \/ /\ fkind = "item"
          /\ \E m \in 0..MaxEntries : \E ks \in [1..m -> ItemKeys] :
                /\ Distinct(ks)
                /\ arg = [dict |-> TRUE, body |-> DictOf(ks)]
       \/ fkind = "item" /\ arg = NonDict
    /\ once = None
    /\ twice = None
    /\ fpc = "start"
    /\ ExtraIdle

SnakeOnce ==
    /\ fkind = "key"
    /\ fpc = "start"
    /\ once' = to_snake_case(arg)
    /\ fpc' = "once"
    /\ UNCHANGED <<fkind, arg, twice>>
    /\ UNCHANGED walk
    /\ UNCHANGED extra

SnakeTwice ==
    /\ fkind = "key"
    /\ fpc = "once"
    /\ twice' = to_snake_case(once)
    /\ fpc' = "twice"
    /\ UNCHANGED <<fkind, arg, once>>
    /\ UNCHANGED walk
    /\ UNCHANGED extra

StandardizeOnce ==
    /\ fkind = "item"
    /\ fpc = "start"
    /\ once' = standardize_column_names(arg)
    /\ fpc' = "once"
    /\ UNCHANGED <<fkind, arg, twice>>
    /\ UNCHANGED walk
    /\ UNCHANGED extra

StandardizeTwice ==
    /\ fkind = "item"
    /\ fpc = "once"
    /\ twice' = standardize_column_names(once)
    /\ fpc' = "twice"
    /\ UNCHANGED <<fkind, arg, once>>
    /\ UNCHANGED walk
    /\ UNCHANGED extra

NextRename ==
    \/ SnakeOnce
    \/ SnakeTwice
    \/ StandardizeOnce
    \/ StandardizeTwice

SpecRename == InitRename /\ [][NextRename]_vars

\* ------------------------------------------------------------------------
\* calculate_metrics (streamlit_app.py), on one row of the data frame; the
\* column operations are element-wise, so rows do not influence each other.
\* A float is [kind |-> "num", num |-> n, den |-> d] (the quotient n/d, d > 0),
\* [kind |-> "inf"] or [kind |-> "nan"]; rounding is not modelled.
\* ------------------------------------------------------------------------
Num(n, d) == [kind |-> "num", num |-> n, den |-> d]

Inf == [kind |-> "inf", num |-> 0, den |-> 0]

NaN == [kind |-> "nan", num |-> 0, den |-> 0]

\* a / b on integer columns: a zero divisor gives inf or nan, no exception.
Divide(a, b) ==
    IF b = 0 THEN (IF a = 0 THEN NaN ELSE Inf) ELSE Num(a, b)

\* x * n for a float x and an integer n.
Times(x, n) ==
    IF x.kind = "num" THEN Num(x.num * n, x.den)
    ELSE IF x.kind = "inf" /\ n = 0 THEN NaN ELSE x

\* np.where(cond, x, y): both x and y have been computed before.
np_where(cond, x, y) == IF cond THEN x ELSE y

\* A condition that lets the zero through.
Positive_orzero(x) == x >= 0

\* df[...] > 0
Positive(x) == x > 0

RateColumns ==
    {"Total_Received", "Active_Grievances_Without_Escalation",
     "Active_Grievances_With_Escalation",
     "Closed_Grievances_Without_Escalation",
     "Closed_Grievances_With_Escalation", "Twitter_Grievances",
     "Facebook_Grievances", "Grievances_With_Feedback"}

RatingColumns ==
    {"Grievances_With_Very_Good_Rating", "Grievances_With_Good_Rating",
     "Grievances_With_OK_Rating", "Grievances_With_Bad_Rating",
     "Grievances_With_Very_Bad_Rating"}

\* total_rated
TotalRated(r) ==
    r.Grievances_With_Very_Good_Rating + r.Grievances_With_Good_Rating
      + r.Grievances_With_OK_Rating + r.Grievances_With_Bad_Rating
      + r.Grievances_With_Very_Bad_Rating

\* The numerator of the satisfaction score.
WeightedRatings(r) ==
    r.Grievances_With_Very_Good_Rating * 5 + r.Grievances_With_Good_Rating * 4
      + r.Grievances_With_OK_Rating * 3 + r.Grievances_With_Bad_Rating * 2
      + r.Grievances_With_Very_Bad_Rating * 1

calculate_metrics(r) ==
    LET Total_Active == r.Active_Grievances_Without_Escalation
                          + r.Active_Grievances_With_Escalation
        Total_Closed == r.Closed_Grievances_Without_Escalation
                          + r.Closed_Grievances_With_Escalation
        Total_Escalated == r.Active_Grievances_With_Escalation
                             + r.Closed_Grievances_With_Escalation
        Total_Social_Media == r.Twitter_Grievances + r.Facebook_Grievances
    IN  [Total_Active |-> Total_Active,
         Total_Closed |-> Total_Closed,
         Total_Escalated |-> Total_Escalated,
         Total_Social_Media |-> Total_Social_Media,
         Resolution_Rate_Percent |->
             np_where(Positive(r.Total_Received),
                      Times(Divide(Total_Closed, r.Total_Received), 100),
                      Num(0, 1)),
         Escalation_Rate_Percent |->
             np_where(Positive(r.Total_Received),
                      Times(Divide(Total_Escalated, r.Total_Received), 100),
                      Num(0, 1)),
         Social_Media_Rate_Percent |->
             np_where(Positive(r.Total_Received),
                      Times(Divide(Total_Social_Media, r.Total_Received), 100),
                      Num(0, 1)),
         Feedback_Response_Rate_Percent |->
             np_where(Positive(r.Total_Received),
                      Times(Divide(r.Grievances_With_Feedback, r.Total_Received), 100),
                      Num(0, 1)),
         Satisfaction_Score |->
             np_where(Positive(TotalRated(r)),
                      Divide(WeightedRatings(r), TotalRated(r)),
                      Num(0, 1))]

\* The rows: every combination of counts in the columns the rates read, with
\* no rating, and every combination of rating counts, with the other columns
\* at MaxCount.
InitMetrics ==
    /\ WalkIdle
    /\ RenameIdle
    /\ FirstRun
    /\ DashIdle
    /\ \/ \E a \in [RateColumns -> 0..MaxCount] :
             row = a @@ [c \in RatingColumns |-> 0]
       \/ \E b \in [RatingColumns -> 0..MaxCount] :
             row = [c \in RateColumns |-> MaxCount] @@ b
    /\ metrics = None
    /\ mpc = "start"

CalculateMetrics ==
    /\ mpc = "start"
    /\ metrics' = calculate_metrics(row)
    /\ mpc' = "done"
    /\ UNCHANGED row
    /\ UNCHANGED <<walk, rename, runs, dash>>

NextMetrics ==
    \/ CalculateMetrics

SpecMetrics == InitMetrics /\ [][NextMetrics]_vars

\* ------------------------------------------------------------------------
\* The dashboard script (streamlit_app.py): run_query and its cache, the
\* cached get_date_range and get_airline_companies, and the script from the
\* date-range selector to the rendering of the loaded data.
\* ------------------------------------------------------------------------
\* What the warehouse does with a query: raise, no row, some rows.
Outcomes == {"raise", "empty", "rows"}

\* The clock advances by one of these numbers of seconds.
TimeSteps == {1, run_query_ttl - 1, meta_ttl - run_query_ttl}

\* An entry of a st.cache_data cache is served until its time-to-live is over.
CacheValid(e, now, ttl) == e.present /\ now < e.at + ttl

\* rows = [dict(row) for row in rows_raw]
Rows(outcome) == IF outcome = "rows" THEN <<"row">> ELSE <<>>

\* A run_query whose except clause raises again.
QueryBody_reraise(outcome) ==
    IF outcome = "raise"
    THEN [returns |-> FALSE, value |-> <<>>, error |-> TRUE]
    ELSE [returns |-> TRUE, value |-> Rows(outcome), error |-> FALSE]

\* The body of run_query: the exception of a failing query is caught, the
\* error is shown and [] is returned.
QueryBody(outcome) ==
    IF outcome = "raise"
    THEN [returns |-> TRUE, value |-> <<>>, error |-> TRUE]
    ELSE [returns |-> TRUE, value |-> Rows(outcome), error |-> FALSE]

\* run_query(q) at the current time, the warehouse answering with outcome
\* when it is asked: the cached value while the entry is valid, otherwise the
\* body, whose return value is memoized.
run_query(q, outcome) ==
    IF CacheValid(qcache[q], dclock, run_query_ttl)
    THEN [returns |-> TRUE, value |-> qcache[q].value, error |-> FALSE,
          contacted |-> FALSE, cache |-> qcache]
    ELSE LET b == QueryBody(outcome)
         IN  [returns |-> b.returns, value |-> b.value, error |-> b.error,
              contacted |-> TRUE,
              cache |-> IF b.returns
                        THEN [qcache EXCEPT ![q] = [present |-> TRUE,
                                                    value |-> b.value,
                                                    at |-> dclock]]
                        ELSE qcache]

\* if not data / if result: an empty result counts as no data.
NotData_ignored(result) == FALSE

NotData(result) == result = <<>>

\* The effect of the call c = run_query(q, outcome) on the cache and on the
\* record of calls and failures.
Called(q, outcome, c) ==
    /\ qcache' = c.cache
    /\ failed_in_run' = IF c.contacted /\ outcome = "raise"
                        THEN failed_in_run \cup {q} ELSE failed_in_run
    /\ last_failure' = IF c.contacted /\ outcome = "raise"
                       THEN [last_failure EXCEPT ![q] = dclock]
                       ELSE last_failure
    /\ last_call' = [text |-> q, at |-> dclock, contacted |-> c.contacted,
                     value |-> c.value, fail_before |-> last_failure[q]]

\* st.error(f"Query failed: ...") of the call c.
WithError(c) == IF c.error THEN shown \cup {"query_error"} ELSE shown

NotCalled == UNCHANGED <<qcache, failed_in_run, last_failure, last_call>>

InitDash ==
    /\ WalkIdle
    /\ RenameIdle
    /\ FirstRun
    /\ MetricsIdle
    /\ dpc = "idle"
    /\ DashStart

\* A script run starts (first load, interaction or timed refresh).
ScriptStart ==
    /\ dpc \in {"idle", "stopped", "finished", "raised"}
    /\ reruns < MaxReruns
    /\ reruns' = reruns + 1
    /\ dpc' = "date_range"
    /\ shown' = {}
    /\ ddata' = <<>>
    /\ failed_in_run' = {}
    /\ UNCHANGED <<dclock, advances, qcache, mcache, last_failure, last_call>>
    /\ UNCHANGED <<walk, rename, runs, metr>>

\* min_date, max_date = get_date_range(), served from its cache; then the
\* date inputs, or the error and st.stop().
DateRangeCached ==
    /\ dpc = "date_range"
    /\ CacheValid(mcache["get_date_range"], dclock, meta_ttl)
    /\ IF NotData(mcache["get_date_range"].value)
       THEN dpc' = "stopped" /\ shown' = shown \cup {"date_range_error"}
       ELSE dpc' = "airlines" /\ shown' = shown
    /\ NotCalled
    /\ UNCHANGED <<dclock, advances, reruns, mcache, ddata>>
    /\ UNCHANGED <<walk, rename, runs, metr>>

\* min_date, max_date = get_date_range(), its body run: run_query of the
\* date-range query, (None, None) when the result is empty; then the date
\* inputs, or the error and st.stop().
DateRangeComputed ==
    /\ dpc = "date_range"
    /\ ~CacheValid(mcache["get_date_range"], dclock, meta_ttl)
    /\ \E outcome \in Outcomes :
          LET c == run_query("range", outcome)
          IN  /\ Called("range", outcome, c)
              /\ IF ~c.returns
                 THEN /\ dpc' = "raised"
                      /\ mcache' = mcache
                      /\ shown' = WithError(c)
                 ELSE /\ mcache' = [mcache EXCEPT !["get_date_range"] =
                                       [present |-> TRUE, value |-> c.value,
                                        at |-> dclock]]
                      /\ IF NotData(c.value)
                         THEN /\ dpc' = "stopped"
                              /\ shown' = WithError(c) \cup {"date_range_error"}
                         ELSE /\ dpc' = "airlines"
                              /\ shown' = WithError(c)
    /\ UNCHANGED <<dclock, advances, reruns, ddata>>
    /\ UNCHANGED <<walk, rename, runs, metr>>

\* airline_companies = get_airline_companies(), served from its cache.
AirlinesCached ==
    /\ dpc = "airlines"
    /\ CacheValid(mcache["get_airline_companies"], dclock, meta_ttl)
    /\ dpc' = "decide"
    /\ NotCalled
    /\ UNCHANGED <<dclock, advances, reruns, mcache, shown, ddata>>
    /\ UNCHANGED <<walk, rename, runs, metr>>

\* airline_companies = get_airline_companies(), its body run: the list is
\* empty when the query gave nothing or failed, and the script goes on.
AirlinesComputed ==
    /\ dpc = "airlines"
    /\ ~CacheValid(mcache["get_airline_companies"], dclock, meta_ttl)
    /\ \E outcome \in Outcomes :
          LET c == run_query("airlines", outcome)
          IN  /\ Called("airlines", outcome, c)
              /\ shown' = WithError(c)
              /\ IF ~c.returns
                 THEN dpc' = "raised" /\ mcache' = mcache
                 ELSE /\ mcache' = [mcache EXCEPT !["get_airline_companies"] =
                                       [present |-> TRUE, value |-> c.value,
                                        at |-> dclock]]
                      /\ dpc' = "decide"
    /\ UNCHANGED <<dclock, advances, reruns, ddata>>
    /\ UNCHANGED <<walk, rename, runs, metr>>

\* if st.sidebar.button(...) or auto_refresh: ... else: st.info(...)
Decide ==
    /\ dpc = "decide"
    /\ \E load \in BOOLEAN :
          IF load
          THEN dpc' = "fetch" /\ shown' = shown
          ELSE dpc' = "finished" /\ shown' = shown \cup {"info"}
    /\ NotCalled
    /\ UNCHANGED <<dclock, advances, reruns, mcache, ddata>>
    /\ UNCHANGED <<walk, rename, runs, metr>>

\* data = get_grievance_data(...); if not data: st.warning(...); st.stop()
FetchData ==
    /\ dpc = "fetch"
    /\ \E outcome \in Outcomes :
          LET c == run_query("data", outcome)
          IN  /\ Called("data", outcome, c)
              /\ IF ~c.returns
                 THEN /\ dpc' = "raised"
                      /\ ddata' = ddata
                      /\ shown' = WithError(c)
                 ELSE /\ ddata' = c.value
                      /\ IF NotData(c.value)
                         THEN /\ dpc' = "stopped"
                              /\ shown' = WithError(c) \cup {"no_data_warning"}
                         ELSE /\ dpc' = "render"
                              /\ shown' = WithError(c)
    /\ UNCHANGED <<dclock, advances, reruns, mcache>>
    /\ UNCHANGED <<walk, rename, runs, metr>>

\* df = pd.DataFrame(data); df['Date_Inserted'] = ...; calculate_metrics(df);
\* the indicators, charts, tables and exports.  The data frame of an empty
\* list has no column Date_Inserted: the script raises there.
Render ==
    /\ dpc = "render"
    /\ IF ddata = <<>>
       THEN dpc' = "raised" /\ shown' = shown \cup {"aggregation"}
       ELSE /\ dpc' = "finished"
            /\ shown' = shown \cup {"aggregation", "charts", "export"}
    /\ NotCalled
    /\ UNCHANGED <<dclock, advances, reruns, mcache, ddata>>
    /\ UNCHANGED <<walk, rename, runs, metr>>

\* Time passes.
Advance ==
    /\ advances < MaxAdvances
    /\ advances' = advances + 1
    /\ \E d \in TimeSteps : dclock' = dclock + d
    /\ UNCHANGED <<dpc, reruns, qcache, mcache, shown, ddata, failed_in_run,
                   last_failure, last_call>>
    /\ UNCHANGED <<walk, rename, runs, metr>>

NextDash ==
    \/ ScriptStart
    \/ DateRangeCached
    \/ DateRangeComputed
    \/ AirlinesCached
    \/ AirlinesComputed
    \/ Decide
    \/ FetchData
    \/ Render
    \/ Advance

SpecDash == InitDash /\ [][NextDash]_vars

\* ------------------------------------------------------------------------
\* Properties
\* ------------------------------------------------------------------------
\* The serial numbers of a sequence of yielded records.
Ids(ys) == [i \in DOMAIN ys |-> Get(ys[i], K_s_no)[2]]

\* The offsets requested so far.
Offsets(fs) == [i \in DOMAIN fs |-> fs[i].offset]

\* ceil(n / l)
Ceil(n, l) == (n + l - 1) \div l

NoUpper(k) == \A i \in DOMAIN k : ~IsUpper(k[i])

\* C1: over a source of N records served in pages of size limit, whose data is
\* exhausted no later than the ceiling, a completed run has yielded exactly N
\* records, every source record once, in the source's order (and at every
\* moment of the run the records yielded so far are the first ones of the
\* source, in order).
C1_YieldsAllInOrder ==
    /\ \A i \in DOMAIN yielded : Get(yielded[i], K_s_no)[2] = i
    /\ (pc = "done" /\ source.n <= max_offset + limit)
          => Ids(yielded) = [i \in 1..source.n |-> i]

C1_Witness ==
    /\ pc = "done"
    /\ source.n = 23
    /\ Len(yielded) = 23
    /\ Ids(yielded)[23] = 23

\* C2, as claimed: over a source of N >= 1 records (data exhausted no later
\* than the ceiling, N an exact multiple of limit included) a completed run
\* has performed exactly ceil(N/limit) fetches.
C2_CeilFetches ==
    (pc = "done" /\ source.n >= 1 /\ source.n <= max_offset + limit)
       => Len(fetches) = Ceil(source.n, limit)

\* C2, amended: over a source of N >= 1 records whose walk ends at a short or
\* empty page (floor(N/limit)*limit <= max_offset) a completed run has
\* performed exactly floor(N/limit) + 1 fetches, which is ceil(N/limit) when N
\* is not a multiple of limit and N/limit + 1 when it is; and no fetch is ever
\* made after a page whose record count is below limit.
C2_FloorPlusOneFetches ==
    /\ \A i \in 1..(Len(fetches) - 1) : fetches[i].count = limit
    /\ (pc = "done" /\ source.n >= 1
           /\ (source.n \div limit) * limit <= max_offset)
          => /\ Len(fetches) = (source.n \div limit) + 1
             /\ (source.n % limit # 0 => Len(fetches) = Ceil(source.n, limit))
             /\ (source.n % limit = 0 => Len(fetches) = Ceil(source.n, limit) + 1)

C2_Witness ==
    /\ pc = "done"
    /\ source.n = 20
    /\ Len(fetches) = 3
    /\ fetches[3].count = 0

\* C3: when the first page (offset 0) has an empty records sequence or no
\* records field, the run yields nothing, performs exactly one fetch and is
\* over.
C3_EmptyFirstPage ==
    (fetches # <<>> /\ fetches[1].count = 0)
       => /\ yielded = <<>>
          /\ Len(fetches) = 1
          /\ pc = "done"

C3_Witness ==
    /\ pc = "done"
    /\ source.omit
    /\ ~data.has_records
    /\ Offsets(fetches) = <<0>>
    /\ yielded = <<>>

\* C4: no fetch is issued at an offset above max_offset; when the source has
\* data past the ceiling, the completed run has fetched exactly the offsets
\* 0, limit, 2*limit, ... <= max_offset and has yielded exactly the records
\* of those pages.
C4_CeilingRespected ==
    /\ \A i \in DOMAIN fetches : fetches[i].offset <= max_offset
    /\ (pc = "done" /\ source.n > max_offset + limit)
          => /\ Offsets(fetches)
                  = [i \in 1..((max_offset \div limit) + 1) |-> (i - 1) * limit]
             /\ Ids(yielded)
                  = [i \in 1..(((max_offset \div limit) + 1) * limit) |-> i]

C4_Witness ==
    /\ pc = "done"
    /\ source.n > max_offset + limit
    /\ Len(fetches) = 6
    /\ fetches[6].offset = max_offset
    /\ Len(yielded) = 60

\* C5: all records yielded in one run carry the same inserted_at.
C5_RunConstantInsertedAt ==
    \A i, j \in DOMAIN yielded :
        Get(yielded[i], K_inserted_at) = Get(yielded[j], K_inserted_at)

\* C6: every yielded record has an updated_at equal to the updated_date of the
\* page it was fetched in.
C6_UpdatedAtIsPageDate ==
    \A i \in DOMAIN yielded :
        /\ HasKey(yielded[i], K_updated_at)
        /\ Get(yielded[i], K_updated_at) = origin[i].updated_date

\* C7: no key of a yielded record contains an uppercase letter.
C7_KeysLowercase ==
    \A i \in DOMAIN yielded : \A k \in Keys(yielded[i]) : NoUpper(k)

C7_Witness ==
    /\ yielded # <<>>
    /\ ~NoUpper(RecordsOf(data)[1][2][1])
    /\ HasKey(yielded[1], K_http_status)

\* C8: renaming is idempotent: to_snake_case applied twice to a key, and
\* standardize_column_names applied twice to an item, give what one
\* application gives.
C8_RenameIdempotent ==
    fpc = "twice" => twice = once

C8_Witness ==
    /\ fpc = "twice"
    /\ fkind = "item"
    /\ arg.dict
    /\ once # arg
    /\ Len(once.body) = 2

\* The key with an underscore put before every capital that follows a
\* lowercase letter or digit, and before the last capital of a run of two or
\* more capitals that a lowercase letter follows.
RECURSIVE WithBoundaries(_, _)
WithBoundaries(k, i) ==
    IF i > Len(k) THEN <<>>
    ELSE LET boundary ==
                 /\ i > 1
                 /\ IsUpper(k[i])
                 /\ \/ IsLowerOrDigit(k[i - 1])
                    \/ IsUpper(k[i - 1]) /\ i < Len(k) /\ IsLower(k[i + 1])
         IN  (IF boundary THEN <<"_", k[i]>> ELSE <<k[i]>>)
                \o WithBoundaries(k, i + 1)

\* C9: to_snake_case puts the underscores of the two boundary rules and then
\* lowercases; totalReceived becomes total_received, HTTPStatus becomes
\* http_status, and a key without an uppercase letter is returned unchanged.
C9_SnakeCaseRule ==
    /\ to_snake_case(K_totalReceived) = K_total_received
    /\ to_snake_case(K_HTTPStatus) = K_http_status
    /\ (fkind = "key" /\ fpc # "start")
          => /\ once = [i \in DOMAIN WithBoundaries(arg, 1)
                           |-> LowerChar(WithBoundaries(arg, 1)[i])]
             /\ (NoUpper(arg) => once = arg)

C9_Witness ==
    /\ fkind = "key"
    /\ fpc = "once"
    /\ arg = <<"B", "C", "a", "B">>
    /\ once = <<"b", "_", "c", "a", "_", "b">>

\* C10: standardize_column_names of a mapping has as many entries as the
\* mapping, and holds every value of the mapping under the renamed form of
\* its key.
C10_ValuesPreserved ==
    (fkind = "item" /\ arg.dict /\ fpc # "start")
       => /\ Len(once.body) = Len(arg.body)
          /\ \A i \in DOMAIN arg.body :
                /\ HasKey(once.body, to_snake_case(arg.body[i][1]))
                /\ Get(once.body, to_snake_case(arg.body[i][1])) = arg.body[i][2]

\* C11: every run starts at offset 0 however the previous run ended, and the
\* offsets requested in a run are 0, limit, 2*limit, ... in this order, none
\* of them twice.
C11_OffsetsFromZero ==
    /\ (pc = "while" /\ fetches = <<>>) => offset = 0
    /\ \A i \in DOMAIN fetches : fetches[i].offset = (i - 1) * limit

C11_Witness ==
    /\ run = 2
    /\ prev_end = [pc |-> "failed", offset |-> limit]
    /\ Len(fetches) = 2
    /\ fetches[2].offset = limit

\* C15: no page is requested at an offset greater than the max_offset passed
\* to get_kcc_source.
C15_PassedCeilingRespected ==
    \A i \in DOMAIN fetches : fetches[i].offset <= passed

C14_Terminates ==
    /\ <>(pc = "done")
    /\ [](Len(fetches) <= (max_offset \div limit) + 1)

C14_Witness ==
    /\ pc = "done"
    /\ Len(fetches) = (max_offset \div limit) + 1
    /\ Len(fetches) = 6
    /\ \A i \in DOMAIN fetches : fetches[i].count >= limit

\* A float that is a number and is 0.
IsZero(x) == x.kind = "num" /\ x.den > 0 /\ x.num = 0

RateNames ==
    {"Resolution_Rate_Percent", "Escalation_Rate_Percent",
     "Social_Media_Rate_Percent", "Feedback_Response_Rate_Percent"}

\* C17: no derived column holds the result of a division by zero; each rate is
\* 0 when Total_Received is 0; Satisfaction_Score is 0 when no rating was
\* given and is otherwise the sum of the ratings weighted 5,4,3,2,1 over their
\* number, which lies between 1 and 5.
C17_MetricsDefined ==
    mpc = "done" =>
        /\ \A c \in RateNames \cup {"Satisfaction_Score"} :
              metrics[c].kind = "num" /\ metrics[c].den > 0 /\ metrics[c].num >= 0
        /\ row.Total_Received = 0 => \A c \in RateNames : IsZero(metrics[c])
        /\ TotalRated(row) = 0 => IsZero(metrics.Satisfaction_Score)
        /\ TotalRated(row) > 0 =>
              LET score == metrics.Satisfaction_Score
                  weighted ==
                      5 * row.Grievances_With_Very_Good_Rating
                        + 4 * row.Grievances_With_Good_Rating
                        + 3 * row.Grievances_With_OK_Rating
                        + 2 * row.Grievances_With_Bad_Rating
                        + row.Grievances_With_Very_Bad_Rating
              IN  /\ score.num * TotalRated(row) = weighted * score.den
                  /\ TotalRated(row) <= weighted
                  /\ weighted <= 5 * TotalRated(row)
                  /\ score.den <= score.num
                  /\ score.num <= 5 * score.den

C17_Witness ==
    /\ mpc = "done"
    /\ row.Total_Received = 0
    /\ row.Closed_Grievances_With_Escalation > 0
    /\ IsZero(metrics.Resolution_Rate_Percent)

\* ------------------------------------------------------------------------
\* Dashboard
\* ------------------------------------------------------------------------
Terminal == dpc \in {"stopped", "finished", "raised"}

NoDataState ==
    /\ dpc = "stopped"
    /\ ("date_range_error" \in shown \/ "no_data_warning" \in shown)
    /\ shown \cap {"aggregation", "charts", "export"} = {}

\* C13 as stated: whenever a warehouse query raised in a script run, the
\* run ends in the 'no data' state (date-range error or 'No data found'
\* warning, then stop), without raising and without any aggregation, chart
\* or export step.
C13_FailureGivesNoData ==
    (Terminal /\ failed_in_run # {}) => NoDataState

\* C13, amended: a raising warehouse query never makes the script raise and
\* always puts the error message on the page; when the date-range query or
\* the data query raised, the run ends in the 'no data' state; and no
\* aggregation, chart or export step is ever executed on an empty result.
\* (A raising airline-list query only empties the airline filter.)
C13_FailureCaught ==
    /\ dpc # "raised"
    /\ failed_in_run # {} => "query_error" \in shown
    /\ (Terminal /\ "range" \in failed_in_run)
          => (NoDataState /\ "date_range_error" \in shown)
    /\ (Terminal /\ "data" \in failed_in_run)
          => (NoDataState /\ "no_data_warning" \in shown)
    /\ shown \cap {"aggregation", "charts", "export"} # {} => ddata # <<>>

C13_Witness ==
    /\ dpc = "stopped"
    /\ "data" \in failed_in_run
    /\ "query_error" \in shown
    /\ "no_data_warning" \in shown

\* C16: after a query failed, every run_query call with the same text
\* within run_query_ttl seconds of the failure returns the empty result
\* without contacting the warehouse; the warehouse is contacted again for
\* that text only once the entry has expired.
C16_FailureMemoized ==
    last_call.fail_before >= 0 =>
       /\ last_call.at < last_call.fail_before + run_query_ttl
             => (~last_call.contacted /\ last_call.value = <<>>)
       /\ last_call.contacted
             => last_call.at >= last_call.fail_before + run_query_ttl

C16_Witness ==
    /\ last_call.fail_before >= 0
    /\ last_call.at = last_call.fail_before + run_query_ttl - 1
    /\ ~last_call.contacted
    /\ last_call.value = <<>>

C16_WitnessExpired ==
    /\ last_call.fail_before >= 0
    /\ last_call.at = last_call.fail_before + run_query_ttl
    /\ last_call.contacted

====
